---- MODULE Spec2Model ----
(***************************************************************************)
(* Survey-Analytics: the Streamlit front end (app.py) and the four report  *)
(* builders (excel_export.py, pdf_export.py, docx_export.py,               *)
(* pptx_export.py).                                                        *)
(*                                                                         *)
(* Spec      : one browser session of app.py.  Every action is one script  *)
(*             run, caused by one widget event, executed top to bottom.    *)
(* BuildSpec : the report builders applied to bounded lists of summaries.  *)
(***************************************************************************)
EXTENDS Integers, Sequences, FiniteSets, TLC

(***************************************************************************)
(* Bounds of the model.                                                    *)
(***************************************************************************)
\* export results kept by the memoization decorator that the model explores
MaxCached == 1
\* summaries in the list given to a report builder
MaxSummaries == 2
\* rows in the table of a summary
MaxTableRows == 2

None == "None"
\* an attribute of st.session_state that was never assigned is <<>>, an assigned
\* one is <<value>>
Unset == <<>>
Set(v) == <<v>>
Val(a) == a[1]

\* the file sets a user can put in the uploader: two that load, one that
\* load_excels rejects, one that loads and whose row bounds cannot be computed
Files == {"F1", "F2", "FX", "FB"}
Formats == {"xlsx", "pdf", "docx", "pptx", "zip"}

(***************************************************************************)
(* data_loader / classification / summary: imported by app.py, their code  *)
(* is not part of the sources.  They are kept abstract: a result records   *)
(* the arguments it was computed from.  Whether load_excels or             *)
(* get_row_bounds raises depends on the file set, whether a pipeline call  *)
(* raises depends on the rows it is given: the first row of F2 holds       *)
(* answers that cannot be classified, its second row alone cannot be       *)
(* summarised.                                                             *)
(***************************************************************************)
load_excels_raises(files) == files = "FX"

load_excels(files) == files

get_row_bounds_raises(l) == l = "FB"

\* F1 holds the single row 1 (no slider is shown for it), F2 the rows 1 and 2
get_row_bounds(l) == IF l = "F1" THEN <<1, 1>> ELSE <<1, 2>>

slice_range(l, f, t) == [ld |-> l, from_row |-> f, to_row |-> t]

classify_questions_raises(sl) == sl.ld = "F2" /\ sl.to_row = 1

classify_questions(sl) == [of |-> sl]

build_all_summaries_raises(sl, qi) == sl.ld = "F2" /\ sl.from_row = 2 /\ sl.to_row = 2

build_all_summaries(sl, qi) == [sliced |-> sl, qinfo |-> qi]

(***************************************************************************)
(* app.py, lines 22-24: the session state of a fresh session.              *)
(***************************************************************************)
InitSessionState ==
  [processed |-> FALSE, ld |-> None, uploaded_files_store |-> None,
   from_row |-> Unset, to_row |-> Unset,
   sliced |-> Unset, qinfo |-> Unset, summaries |-> Unset]

(***************************************************************************)
(* app.py, lines 33-43: the upload handling.  The except clause reports    *)
(* the error and keeps whatever was assigned before the exception.         *)
(***************************************************************************)
LoadFiles_NoReset(ss, files) ==
  IF files /= None /\ (ss.ld = None \/ files /= ss.uploaded_files_store)
  THEN IF load_excels_raises(files)
       THEN [ss |-> ss, error |-> TRUE, loaded |-> FALSE]
       ELSE LET l  == load_excels(files)
                s1 == [ss EXCEPT !.ld = l, !.uploaded_files_store = files]
                b  == get_row_bounds(l)
            IN IF get_row_bounds_raises(l)
               THEN [ss |-> s1, error |-> TRUE, loaded |-> FALSE]
               ELSE [ss |-> [s1 EXCEPT !.from_row = Set(b[1]), !.to_row = Set(b[2])],
                     error |-> FALSE, loaded |-> TRUE]
  ELSE [ss |-> ss, error |-> FALSE, loaded |-> FALSE]

LoadFiles(ss, files) ==
  IF files /= None /\ (ss.ld = None \/ files /= ss.uploaded_files_store)
  THEN IF load_excels_raises(files)
       THEN [ss |-> ss, error |-> TRUE, loaded |-> FALSE]
       ELSE LET l  == load_excels(files)
                s1 == [ss EXCEPT !.ld = l, !.uploaded_files_store = files]
                b  == get_row_bounds(l)
            IN IF get_row_bounds_raises(l)
               THEN [ss |-> s1, error |-> TRUE, loaded |-> FALSE]
               ELSE [ss |-> [s1 EXCEPT !.from_row = Set(b[1]), !.to_row = Set(b[2]),
                                       !.processed = FALSE],
                     error |-> FALSE, loaded |-> TRUE]
  ELSE [ss |-> ss, error |-> FALSE, loaded |-> FALSE]

(***************************************************************************)
(* app.py, lines 50-52: the row range slider.  ev is the event of the run; *)
(* a slider move returns the new pair, any other run returns the pair the  *)
(* slider was given.  Reading an attribute that was never set, or giving   *)
(* st.slider a value outside min_r..max_r, raises.                         *)
(***************************************************************************)
SliderRaises(ss, b) ==
  \/ ss.from_row = Unset
  \/ ss.to_row = Unset
  \/ ~(b[1] <= Val(ss.from_row) /\ Val(ss.from_row) <= Val(ss.to_row) /\ Val(ss.to_row) <= b[2])

Slider(ss, ev) ==
  IF ev.kind = "slider"
  THEN [ss EXCEPT !.from_row = Set(ev.range[1]), !.to_row = Set(ev.range[2])]
  ELSE ss

NotRaised == "none"

(***************************************************************************)
(* app.py, lines 55-60: the Process button.  The handler has no try       *)
(* block: an exception leaves the assignments made before it.  Reading    *)
(* from_row or to_row when it was never assigned raises.                  *)
(***************************************************************************)
Process(ss) ==
  IF ss.from_row = Unset \/ ss.to_row = Unset
  THEN [ss |-> ss, raised |-> TRUE]
  ELSE LET sl == slice_range(ss.ld, Val(ss.from_row), Val(ss.to_row))
           s1 == [ss EXCEPT !.sliced = Set(sl)]
       IN IF classify_questions_raises(sl)
          THEN [ss |-> s1, raised |-> TRUE]
          ELSE LET s2 == [s1 EXCEPT !.qinfo = Set(classify_questions(sl))]
               IN IF build_all_summaries_raises(sl, Val(s2.qinfo))
                  THEN [ss |-> s2, raised |-> TRUE]
                  ELSE [ss |-> [s2 EXCEPT !.summaries = Set(build_all_summaries(sl, Val(s2.qinfo))),
                                          !.processed = TRUE],
                        raised |-> FALSE]

(***************************************************************************)
(* app.py, lines 45-60: the sidebar below the uploader (the Reset button   *)
(* is the action ClickReset).  Line 49 calls get_row_bounds outside any    *)
(* try block.                                                              *)
(***************************************************************************)
Sidebar(ss, ev) ==
  IF ss.ld = None
  THEN [ss |-> ss, raised |-> NotRaised]
  ELSE IF get_row_bounds_raises(ss.ld)
  THEN [ss |-> ss, raised |-> "get_row_bounds"]
  ELSE LET b == get_row_bounds(ss.ld)
       IN IF b[2] > b[1] /\ SliderRaises(ss, b)
          THEN [ss |-> ss, raised |-> "slider"]
          ELSE LET s1 == IF b[2] > b[1] THEN Slider(ss, ev) ELSE ss
                   p  == Process(s1)
               IN IF ev.kind = "process"
                  THEN [ss |-> p.ss, raised |-> IF p.raised THEN "process" ELSE NotRaised]
                  ELSE [ss |-> s1, raised |-> NotRaised]

(***************************************************************************)
(* The report builders as app.py sees them: bytes that depend on the       *)
(* arguments of the call (BuildSpec below models what is in the bytes).    *)
(***************************************************************************)
build_report(fmt, a) ==
  [fmt |-> fmt, original_df |-> a.df, sliced_df |-> a.sliced,
   qinfo |-> IF fmt = "xlsx" THEN Set(a.qinfo) ELSE Unset,
   summaries |-> a.summaries, range_info |-> a.range_info]

\* app.py, lines 217-228: the body of get_zip_archive.  failing is the number
\* of the builder that raises (0: none does).  A zip being written is
\* [entries, calls, raised]; calls are the calls made, in order.
ZipFormats == <<"xlsx", "pdf", "docx", "pptx">>

ZipName(fmt) == <<"results.", fmt>>

RECURSIVE zip_write(_, _, _, _)
zip_write(z, a, k, failing) ==
  IF k > Len(ZipFormats) THEN z
  ELSE LET closed == Append(z.calls, "plt.close")
           called == Append(closed, ZipFormats[k])
       IN IF failing = k
          THEN [z EXCEPT !.calls = called, !.raised = TRUE]
          ELSE zip_write([z EXCEPT !.calls = called,
                                   !.entries = Append(z.entries,
                                      [name |-> ZipName(ZipFormats[k]),
                                       data |-> build_report(ZipFormats[k], a)])],
                         a, k + 1, failing)

zip_body(a, failing) ==
  LET z == zip_write([entries |-> <<>>, calls |-> <<>>, raised |-> FALSE], a, 1, failing)
  IN [raised |-> z.raised, calls |-> z.calls,
      returned |-> IF z.raised THEN Unset
                   ELSE Set([fmt |-> "zip", entries |-> z.entries])]

get_zip_archive(a) == Val(zip_body(a, 0).returned)

\* app.py, lines 208-228: the body of get_excel, get_pdf, get_docx, get_pptx,
\* get_zip_archive
Builder(fmt, a) == IF fmt = "zip" THEN get_zip_archive(a) ELSE build_report(fmt, a)

(***************************************************************************)
(* app.py, lines 207-216: @st.cache_data.  The decorator keys a result by  *)
(* the function and by the arguments it hashes; a parameter whose name     *)
(* starts with an underscore is not hashed, and every parameter of the     *)
(* five functions does (_ld, _sl, _qi, _sm, _ri).  The cache belongs to    *)
(* the server, not to the session.                                         *)
(***************************************************************************)
CacheKey(fmt, a) == <<fmt>>

CacheHit(c, fmt, a) == \E e \in c : e.key = CacheKey(fmt, a)

CacheGet(c, fmt, a) == (CHOOSE e \in c : e.key = CacheKey(fmt, a)).value

\* app.py, line 205 and lines 231-238: the arguments of an export call
ExportArgs(ss) ==
  [df |-> ss.ld, sliced |-> Val(ss.sliced), qinfo |-> Val(ss.qinfo),
   summaries |-> Val(ss.summaries),
   range_info |-> <<Val(ss.from_row), Val(ss.to_row)>>]

(***************************************************************************)
(* app.py, lines 67-239: the main area.  okBuild says whether the builder  *)
(* behind the clicked export button returns or raises.                     *)
(***************************************************************************)
Rendered(ss) == ss.processed /\ ss.sliced /= Unset

\* app.py, line 86 and line 88: the table and the row range the analysis tab shows
View(ss) ==
  IF Rendered(ss)
  THEN Set([sliced |-> Val(ss.sliced), summaries |-> Val(ss.summaries),
            from_row |-> Val(ss.from_row), to_row |-> Val(ss.to_row)])
  ELSE Unset

Main(ss, ev, c, okBuild) ==
  IF ~Rendered(ss) \/ ev.kind /= "export"
  THEN [download |-> Unset, cache |-> c, raised |-> FALSE]
  ELSE LET a == ExportArgs(ss)
       IN IF CacheHit(c, ev.fmt, a)
          THEN [download |-> Set(CacheGet(c, ev.fmt, a)), cache |-> c, raised |-> FALSE]
          ELSE IF ~okBuild
          THEN [download |-> Unset, cache |-> c, raised |-> TRUE]
          ELSE LET bytes == Builder(ev.fmt, a)
               IN [download |-> Set(bytes),
                   cache |-> c \cup {[key |-> CacheKey(ev.fmt, a), value |-> bytes]},
                   raised |-> FALSE]

(***************************************************************************)
(* One run of the script, top to bottom (app.py, lines 22-242).  An        *)
(* exception that no try block catches ends the run: what was assigned     *)
(* before it stays in the session state, nothing below it is executed.     *)
(***************************************************************************)
RunScript(ss, files, ev, c, okBuild) ==
  LET l == LoadFiles(ss, files)
      s == Sidebar(l.ss, ev)
      m == Main(s.ss, ev, c, okBuild)
  IN [ss       |-> s.ss,
      error    |-> l.error,
      loaded   |-> l.loaded,
      uncaught |-> IF s.raised /= NotRaised THEN s.raised
                   ELSE IF m.raised THEN "export" ELSE NotRaised,
      view     |-> IF s.raised /= NotRaised THEN Unset ELSE View(s.ss),
      download |-> IF s.raised /= NotRaised THEN Unset ELSE m.download,
      cache    |-> IF s.raised /= NotRaised THEN c ELSE m.cache]

(***************************************************************************)
(* The report builders.  A summary is                                      *)
(*   [question |-> [code, text, qtype], table |-> <<row, ...>>]            *)
(* and a row of its table carries what the builders read of its first      *)
(* column: the length of the label, its explicit line breaks, and the      *)
(* number of lines FPDF.multi_cell needs to print it 110 mm wide.  A       *)
(* report is the sequence of the things the builder puts into the file.    *)
(***************************************************************************)
Title(qs) == <<qs.question.code, ". ", qs.question.text>>

Empty(table) == Len(table) = 0

\* the chart both matplotlib branches choose (pdf_export.py, lines 188-212;
\* docx_export.py, lines 37-76; pptx_export.py, lines 60-90)
ChartKind(qs) == IF qs.question.qtype = "SCALE" THEN "bar" ELSE "pie"

(***************************************************************************)
(* pdf_export.py.  Lengths are millimetres.  A pdf under construction is   *)
(* [y, page, q, ev]: the cursor, the page number, the index of the         *)
(* question being printed and the things printed so far.                   *)
(***************************************************************************)
FONT_NAME_Helvetica == "Helvetica"

FONT_NAME == "DejaVuSans"

\* FPDF(): A4 portrait, 10 mm margins, automatic page break 20 mm above the
\* bottom edge of the 297 mm page
FpdfTopMargin == 10
FpdfPageBreakTrigger == 277
\* the height of a chart image printed 180 mm wide from a 12 x 7 inch figure
ChartHeight == 105

\* pdf_export.py, lines 59-71 and FPDF.add_page: a new page, its footer and
\* header in FONT_NAME; header() prints a 10 mm cell and a 10 mm line feed
add_page(p) ==
  [p EXCEPT !.y = FpdfTopMargin + 10,
            !.page = p.page + 1,
            !.ev = Append(p.ev, [kind |-> "page", q |-> p.q, page |-> p.page + 1,
                                 font |-> FONT_NAME])]

\* FPDF.cell / FPDF.image: a box of height h that does not fit above the
\* automatic page break goes to a new page
will_page_break(p, h) == p.y + h > FpdfPageBreakTrigger

auto_break(p, h) == IF will_page_break(p, h) THEN add_page(p) ELSE p

ln(p, h) == [p EXCEPT !.y = p.y + h]

\* FPDF.multi_cell: every line is a cell of height h followed by a line feed;
\* the lines that fit above the automatic page break are printed on this page,
\* the others go to new pages
RECURSIVE multi_cell(_, _, _)
multi_cell(p, h, lines) ==
  LET fit == IF p.y > FpdfPageBreakTrigger THEN 0
             ELSE (FpdfPageBreakTrigger - p.y) \div h
  IN IF lines <= fit THEN ln(p, lines * h)
     ELSE multi_cell(add_page(p), h, lines - fit)

Emit(p, e) == [p EXCEPT !.ev = Append(p.ev, e)]

\* pdf_export.py, lines 73-81; a title is printed on one line
chapter_title(p, text) ==
  LET ct_p1 == IF p.y > 250 THEN add_page(p) ELSE p
      ct_p2 == auto_break(ct_p1, 8)
      ct_p3 == Emit(ct_p2, [kind |-> "title", q |-> p.q, page |-> ct_p2.page, text |-> text,
                      font |-> FONT_NAME])
  IN ln(multi_cell(ct_p3, 8, 1), 2)

\* pdf_export.py, lines 83-97: ceil(len / 50) lines, at least one, plus the
\* explicit line breaks
CeilDiv(a, b) == (a + b - 1) \div b

calculate_row_height(row, line_height) ==
  LET c == CeilDiv(row.text_len, 50)
      lines_count == (IF c < 1 THEN 1 ELSE c) + row.newlines
  IN lines_count * line_height

\* pdf_export.py, lines 106-113
RECURSIVE total_table_height(_, _)
total_table_height(table, line_height) ==
  IF Empty(table) THEN line_height
  ELSE calculate_row_height(Head(table), line_height)
       + total_table_height(Tail(table), line_height)

\* pdf_export.py, lines 130-133 and 147-150: the header cells and a line feed
print_header(p, line_height, repeated) ==
  LET ph_p1 == auto_break(p, line_height)
  IN ln(Emit(ph_p1, [kind |-> "header", q |-> p.q, page |-> ph_p1.page, y |-> ph_p1.y,
                  repeated |-> repeated, cols |-> 3, font |-> FONT_NAME]),
        line_height)

Max(a, b) == IF a >= b THEN a ELSE b

\* pdf_export.py, lines 136-171: one row of the table
print_row(p, row, idx, line_height, page_break_trigger) ==
  LET curr_h  == calculate_row_height(row, line_height)
      pr_p1      == IF p.y + curr_h > page_break_trigger
                 THEN print_header(add_page(p), line_height, TRUE)
                 ELSE p
      y_start == pr_p1.y
      pr_p2      == multi_cell(pr_p1, line_height, row.lines)
      h_real  == pr_p2.y - y_start
      final_h == Max(h_real, curr_h)
      pr_p3      == auto_break([pr_p2 EXCEPT !.y = y_start], final_h)
      pr_p4      == auto_break(pr_p3, final_h)
  IN Emit([pr_p4 EXCEPT !.y = y_start + final_h],
          [kind |-> "row", q |-> p.q, n |-> idx, page |-> pr_p1.page,
           page_end |-> pr_p4.page, font |-> FONT_NAME])

\* the loops run statement by statement: the state a pass leaves (x) is
\* computed before the next pass starts
RECURSIVE print_rows(_, _, _, _, _)
print_rows(p, table, idx, line_height, page_break_trigger) ==
  IF idx > Len(table) THEN p
  ELSE CHOOSE r \in { print_rows(x, table, idx + 1, line_height, page_break_trigger) :
                  x \in { print_row(p, table[idx], idx, line_height, page_break_trigger) } } : TRUE

\* pdf_export.py, lines 115-125: the keep-together decision
KeepTogetherBreak(p, table, line_height, page_break_trigger) ==
  LET total == total_table_height(table, line_height)
      space_left == page_break_trigger - p.y
  IN total < 240 /\ total > space_left

\* pdf_export.py, lines 99-171
add_table(p, table) ==
  LET line_height == 6
      page_break_trigger == 270
      at_p1 == IF KeepTogetherBreak(p, table, line_height, page_break_trigger)
            THEN add_page(p) ELSE p
  IN print_rows(print_header(at_p1, line_height, FALSE), table, 1,
                line_height, page_break_trigger)

\* pdf_export.py, lines 173-232
add_chart_NoChart(p, qs) == p

add_chart(p, qs) ==
  IF Empty(qs.table) THEN p
  ELSE LET ac_p1 == IF p.y > 180 THEN add_page(p) ELSE p
           ac_p2 == auto_break(ac_p1, ChartHeight)
       IN ln(ln(Emit(ac_p2, [kind |-> "chart", q |-> p.q, page |-> ac_p2.page,
                          chart |-> ChartKind(qs)]),
                ChartHeight), 5)

(***************************************************************************)
(* Failures of the rendering.  fails = [chart |-> i, table |-> j] names    *)
(* the question whose chart and the question whose table cannot be         *)
(* rendered (0: none); the call for it raises.                             *)
(***************************************************************************)
NoFailure == [chart |-> 0, table |-> 0]

\* pdf_export.py, lines 279-282: add_table raises while it measures the rows
\* (lines 109-113), before anything is printed; the except clause prints the
\* error in a 10 mm cell
try_add_table(p, table, fails) ==
  IF fails.table = p.q
  THEN LET tt_p1 == auto_break(p, 10)
       IN ln(Emit(tt_p1, [kind |-> "table_error", q |-> p.q, page |-> tt_p1.page,
                          font |-> FONT_NAME]), 10)
  ELSE add_table(p, table)

\* pdf_export.py, lines 286-289: a matplotlib call of add_chart raises after
\* the page check (lines 178-179); the except clause passes
try_add_chart(p, qs, fails) ==
  IF fails.chart = p.q /\ ~Empty(qs.table)
  THEN IF p.y > 180 THEN add_page(p) ELSE p
  ELSE add_chart(p, qs)

\* pdf_export.py, lines 267-291: one pass of the main loop
pdf_question(p0, qs, i, fails) ==
  LET pq == [p0 EXCEPT !.q = i]
      pq_p1 == chapter_title(pq, Title(qs))
  IN IF Empty(qs.table)
     THEN LET pq_p2 == auto_break(pq_p1, 10)
          IN ln(ln(Emit(pq_p2, [kind |-> "placeholder", q |-> i, page |-> pq_p2.page,
                             font |-> FONT_NAME]), 10), 5)
     ELSE ln(try_add_chart(ln(try_add_table(pq_p1, qs.table, fails), 5), qs, fails), 5)

RECURSIVE pdf_loop(_, _, _, _)
pdf_loop(p, summaries, i, fails) ==
  IF i > Len(summaries) THEN p
  ELSE CHOOSE r \in { pdf_loop(x, summaries, i + 1, fails) :
                  x \in { pdf_question(p, summaries[i], i, fails) } } : TRUE

\* pdf_export.py, lines 251-264: the first page and the title block
pdf_title_page ==
  LET p0 == add_page([y |-> 0, page |-> 0, q |-> 0, ev |-> <<>>])
      tp_p1 == Emit(p0, [kind |-> "cover", q |-> 0, page |-> p0.page, font |-> FONT_NAME])
  IN ln(ln(ln(ln(ln(ln(ln(tp_p1, 10), 10), 8), 8), 8), 10), 10)

\* pdf_export.py, lines 234-293.  font_path is what get_font_path returned.
build_pdf_report(summaries, font_path, fails) ==
  IF font_path = None
  THEN << [kind |-> "error", q |-> 0, page |-> 1, font |-> "Helvetica"] >>
  ELSE pdf_loop(pdf_title_page, summaries, 1, fails).ev

(***************************************************************************)
(* docx_export.py, lines 115-183: the main loop of build_docx_report.      *)
(***************************************************************************)
RECURSIVE table_rows(_, _, _, _)
table_rows(ev, table, i, idx) ==
  IF idx > Len(table) THEN ev
  ELSE CHOOSE r \in { table_rows(x, table, i, idx + 1) :
                  x \in { Append(ev, [kind |-> "row", q |-> i, n |-> idx]) } } : TRUE

\* docx_export.py, lines 163-175: the chart, or the paragraph with the error
\* text when create_chart_image or add_picture raises
docx_chart_Silent(ev, qs, i, fails) ==
  IF fails.chart = i THEN ev
  ELSE Append(ev, [kind |-> "chart", q |-> i, chart |-> ChartKind(qs)])

docx_chart(ev, qs, i, fails) ==
  IF fails.chart = i
  THEN Append(ev, [kind |-> "chart_error", q |-> i])
  ELSE Append(ev, [kind |-> "chart", q |-> i, chart |-> ChartKind(qs)])

docx_question(ev, summaries, i, fails) ==
  LET qs == summaries[i]
      dq_e1 == Append(ev, [kind |-> "title", q |-> i, text |-> Title(qs)])
  IN IF Empty(qs.table)
     THEN Append(dq_e1, [kind |-> "placeholder", q |-> i])
     ELSE LET dq_e2 == Append(dq_e1, [kind |-> "header", q |-> i, cols |-> 3,
                                rows |-> Len(qs.table) + 1])
              dq_e3 == table_rows(dq_e2, qs.table, i, 1)
              dq_e4 == docx_chart(dq_e3, qs, i, fails)
          IN IF qs /= summaries[Len(summaries)]
             THEN Append(dq_e4, [kind |-> "rule", q |-> i])
             ELSE dq_e4

RECURSIVE docx_loop(_, _, _, _)
docx_loop(ev, summaries, i, fails) ==
  IF i > Len(summaries) THEN ev
  ELSE CHOOSE r \in { docx_loop(x, summaries, i + 1, fails) :
                  x \in { docx_question(ev, summaries, i, fails) } } : TRUE

\* docx_export.py, lines 87-188
build_docx_report(summaries, fails) ==
  docx_loop(<< [kind |-> "cover", q |-> 0] >>, summaries, 1, fails)

(***************************************************************************)
(* pptx_export.py, lines 158-216: the main loop of build_pptx_report.  A   *)
(* summary with an empty table gets no slide.                              *)
(***************************************************************************)
\* pptx_export.py, lines 212-216: the chart, or nothing when create_chart_image
\* or add_picture raises
pptx_chart(ev, qs, i, fails) ==
  IF fails.chart = i THEN ev
  ELSE Append(ev, [kind |-> "chart", q |-> i, chart |-> ChartKind(qs)])

pptx_question_NoSkip(ev, qs, i, fails) ==
  LET xn_e1 == Append(ev, [kind |-> "title", q |-> i, text |-> Title(qs)])
      xn_e2 == Append(xn_e1, [kind |-> "header", q |-> i, cols |-> 3,
                        rows |-> Len(qs.table) + 1])
      xn_e3 == table_rows(xn_e2, qs.table, i, 1)
  IN pptx_chart(xn_e3, qs, i, fails)

pptx_question(ev, qs, i, fails) ==
  IF Empty(qs.table) THEN ev
  ELSE LET xq_e1 == Append(ev, [kind |-> "title", q |-> i, text |-> Title(qs)])
           xq_e2 == Append(xq_e1, [kind |-> "header", q |-> i, cols |-> 3,
                             rows |-> Len(qs.table) + 1])
           xq_e3 == table_rows(xq_e2, qs.table, i, 1)
       IN pptx_chart(xq_e3, qs, i, fails)

RECURSIVE pptx_loop(_, _, _, _)
pptx_loop(ev, summaries, i, fails) ==
  IF i > Len(summaries) THEN ev
  ELSE CHOOSE r \in { pptx_loop(x, summaries, i + 1, fails) :
                  x \in { pptx_question(ev, summaries[i], i, fails) } } : TRUE

\* pptx_export.py, lines 102-220: the title slide, the technical slide, the loop
build_pptx_report(summaries, fails) ==
  pptx_loop(<< [kind |-> "cover", q |-> 0], [kind |-> "technical", q |-> 0] >>,
            summaries, 1, fails)

(***************************************************************************)
(* excel_export.py, lines 86-143: the sheet of the summaries.  An xlsx     *)
(* under construction is [current_row, ev]; rows are 0-based sheet rows.   *)
(***************************************************************************)
RECURSIVE excel_rows(_, _, _, _, _)
excel_rows(ev, table, i, startrow, idx) ==
  IF idx > Len(table) THEN ev
  ELSE CHOOSE r \in { excel_rows(x, table, i, startrow, idx + 1) :
                  x \in { Append(ev, [kind |-> "row", q |-> i, n |-> idx, row |-> startrow + idx]) } } : TRUE

\* excel_export.py, lines 115-130: the rows the series of the chart refer to
ChartRange_FromHeader(current_row, n_rows) ==
  [first_data_row |-> current_row, last_data_row |-> current_row + n_rows]

ChartRange(current_row, n_rows) ==
  [first_data_row |-> current_row + 1, last_data_row |-> current_row + n_rows]

excel_question(x, qs, i) ==
  LET eq_e1 == Append(x.ev, [kind |-> "title", q |-> i, text |-> Title(qs),
                          row |-> x.current_row])
      current_row == x.current_row + 1
  IN IF Empty(qs.table)
     THEN [current_row |-> current_row + 2,
           ev |-> Append(eq_e1, [kind |-> "placeholder", q |-> i, row |-> current_row])]
     ELSE LET eq_e2 == Append(eq_e1, [kind |-> "header", q |-> i, cols |-> 3,
                                row |-> current_row])
              eq_e3 == excel_rows(eq_e2, qs.table, i, current_row, 1)
              n_rows == Len(qs.table)
              r == ChartRange(current_row, n_rows)
              eq_e4 == Append(eq_e3, [kind |-> "chart", q |-> i, chart |-> "pie",
                                categories |-> <<r.first_data_row, 0, r.last_data_row, 0>>,
                                values |-> <<r.first_data_row, 1, r.last_data_row, 1>>,
                                row |-> current_row - 1])
          IN [current_row |-> current_row + Max(n_rows + 3, 18), ev |-> eq_e4]

RECURSIVE excel_loop(_, _, _)
excel_loop(xl, summaries, i) ==
  IF i > Len(summaries) THEN xl
  ELSE CHOOSE r \in { excel_loop(y, summaries, i + 1) :
                  y \in { excel_question(xl, summaries[i], i) } } : TRUE

\* excel_export.py, lines 27-145
build_excel_report(summaries) ==
  excel_loop([current_row |-> 0, ev |-> <<>>], summaries, 1).ev

(***************************************************************************)
(* State.                                                                  *)
(***************************************************************************)
VARIABLES
  uploaded_files,   \* the value of st.file_uploader
  session_state,    \* st.session_state
  cache,            \* the results st.cache_data keeps
  view,             \* what the analysis tab showed in the last run
  download,         \* the bytes a download button offered in the last run
  error,            \* the last run showed st.error (line 43)
  uncaught,         \* where the last run ended with an uncaught exception
  report_summaries, \* the summaries given to the report builders
  report            \* the report built last: its format and what is in it

session_vars == <<uploaded_files, session_state, cache, view, download, error, uncaught>>

build_vars == <<report_summaries, report>>

vars == <<session_vars, build_vars>>

SessionInit ==
  /\ uploaded_files = None
  /\ session_state = InitSessionState
  /\ cache = {}
  /\ view = Unset
  /\ download = Unset
  /\ error = FALSE
  /\ uncaught = NotRaised

Init ==
  /\ SessionInit
  /\ report_summaries = <<>>
  /\ report = Unset

Run(files, ss, ev, okBuild) ==
  LET r == RunScript(ss, files, ev, cache, okBuild)
  IN /\ uploaded_files' = files
     /\ session_state' = r.ss
     /\ cache' = r.cache
     /\ view' = r.view
     /\ download' = r.download
     /\ error' = r.error
     /\ uncaught' = r.uncaught
     /\ UNCHANGED build_vars

\* the user changes the content of the uploader
Upload ==
  \E f \in Files \cup {None} :
    /\ f /= uploaded_files
    /\ Run(f, session_state, [kind |-> "upload"], TRUE)

\* the slider is on the page when the last run reached line 51
SliderShown ==
  /\ session_state.ld /= None
  /\ uncaught \notin {"get_row_bounds", "slider"}
  /\ get_row_bounds(session_state.ld)[2] > get_row_bounds(session_state.ld)[1]

MoveSlider ==
  /\ SliderShown
  /\ LET b == get_row_bounds(session_state.ld)
     IN \E f \in b[1]..b[2], t \in b[1]..b[2] :
          /\ f <= t
          /\ <<f, t>> /= <<Val(session_state.from_row), Val(session_state.to_row)>>
          /\ Run(uploaded_files, session_state, [kind |-> "slider", range |-> <<f, t>>], TRUE)

\* the Process button is on the page when the last run reached line 55
ProcessShown ==
  /\ session_state.ld /= None
  /\ uncaught \notin {"get_row_bounds", "slider"}

ClickProcess ==
  /\ ProcessShown
  /\ Run(uploaded_files, session_state, [kind |-> "process"], TRUE)

\* the Reset button is on the page when the last run reached line 62
ResetShown == ProcessShown /\ uncaught /= "process"

\* app.py, lines 62-64: session_state.clear() and st.rerun().  The uploader has
\* no key; whether the browser still sends its files after the clear is left open.
ClickReset ==
  /\ ResetShown
  /\ \E f \in {uploaded_files, None} :
       Run(f, InitSessionState, [kind |-> "reset"], TRUE)

\* the export buttons are on the page when the last run reached line 230
ExportShown == uncaught = NotRaised /\ view /= Unset

ClickExport ==
  /\ ExportShown
  /\ \E fmt \in Formats, okBuild \in BOOLEAN :
       /\ \/ CacheHit(cache, fmt, ExportArgs(session_state))
          \/ Cardinality(cache) < MaxCached
       /\ Run(uploaded_files, session_state, [kind |-> "export", fmt |-> fmt], okBuild)

\* any other widget of the page (a select box, a tab, a download button)
Rerun ==
  /\ Run(uploaded_files, session_state, [kind |-> "rerun"], TRUE)

Next ==
  \/ Upload
  \/ MoveSlider
  \/ ClickProcess
  \/ ClickReset
  \/ ClickExport
  \/ Rerun

Spec == Init /\ [][Next]_vars

(***************************************************************************)
(* BuildSpec: the four builders applied to every list of at most           *)
(* MaxSummaries summaries whose tables have at most MaxTableRows rows.     *)
(* The i-th question has code i.  A label is either 50 wide characters,    *)
(* which calculate_row_height takes for one line and multi_cell prints on  *)
(* three, or a text of 1850 characters and one line break printed on 38    *)
(* lines, as estimated.                                                    *)
(***************************************************************************)
RowKinds ==
  { [text_len |-> 50, newlines |-> 0, lines |-> 3],
    [text_len |-> 1850, newlines |-> 1, lines |-> 38] }

SeqsUpTo(S, n) == UNION { [1..k -> S] : k \in 0..n }

Tables == SeqsUpTo(RowKinds, MaxTableRows)

QuestionTypes == {"SCALE", "CHOICE"}

\* the summary of the i-th question
Summary(i, qtype, table) ==
  [question |-> [code |-> i, text |-> <<"question", i>>, qtype |-> qtype],
   table |-> table]

\* pdf_export.py, lines 23-48: get_font_path returns a path or None
FontPaths == {"DejaVuSans.ttf", None}

\* the list of summaries is put together one summary at a time, then given
\* to a builder
BuildInit ==
  /\ SessionInit
  /\ report_summaries = <<>>
  /\ report = Unset

AddSummary ==
  /\ report = Unset
  /\ Len(report_summaries) < MaxSummaries
  /\ \E qtype \in QuestionTypes : \E table \in Tables :
       report_summaries' =
         Append(report_summaries, Summary(Len(report_summaries) + 1, qtype, table))
  /\ UNCHANGED <<session_vars, report>>

\* the failures a call can meet: nothing fails, the chart of one question
\* fails, or (in the PDF) the table of one question fails
ChartFailures(summaries) == { [chart |-> c, table |-> 0] : c \in 0..Len(summaries) }

TableFailures(summaries) == { [chart |-> 0, table |-> t] : t \in 0..Len(summaries) }

\* a behaviour of BuildSpec is one call of one builder
Built(fmt, fails, doc) ==
  /\ report = Unset
  /\ report' = Set([fmt |-> fmt, fails |-> fails, doc |-> doc])
  /\ UNCHANGED <<session_vars, report_summaries>>

BuildExcel == Built("xlsx", NoFailure, build_excel_report(report_summaries))

BuildPdf ==
  \E font_path \in FontPaths :
    \E fails \in ChartFailures(report_summaries) \cup TableFailures(report_summaries) :
      /\ report = Unset
      /\ font_path = None => fails = NoFailure
      /\ report' = Set([fmt |-> "pdf", font_path |-> font_path, fails |-> fails,
                        doc |-> build_pdf_report(report_summaries, font_path, fails)])
      /\ UNCHANGED <<session_vars, report_summaries>>

BuildDocx ==
  \E fails \in ChartFailures(report_summaries) :
    Built("docx", fails, build_docx_report(report_summaries, fails))

BuildPptx ==
  \E fails \in ChartFailures(report_summaries) :
    Built("pptx", fails, build_pptx_report(report_summaries, fails))

BuildNext ==
  \/ AddSummary
  \/ BuildExcel
  \/ BuildPdf
  \/ BuildDocx
  \/ BuildPptx

BuildSpec == BuildInit /\ [][BuildNext]_vars

(***************************************************************************)
(* Claims about the session (checked under Spec).                          *)
(***************************************************************************)

\* C1: the bytes an export button offers for download are the bytes the builder
\* of that format produces from the session's current ld.df, sliced, qinfo,
\* summaries and range_info; a memoized result of other arguments is never
\* returned.
C1_DownloadIsBuiltFromCurrentArgs ==
  download /= Unset =>
    Val(download) = Builder(Val(download).fmt, ExportArgs(session_state))

\* C2: whenever the tabs are rendered, the stored qinfo is the classification of
\* the stored sliced table, the stored summaries are built from that sliced and
\* that qinfo, and sliced is a slice of the stored ld.
C2_StoredResultsConsistent ==
  view /= Unset =>
    /\ session_state.qinfo = Set(classify_questions(Val(session_state.sliced)))
    /\ session_state.summaries =
         Set(build_all_summaries(Val(session_state.sliced), Val(session_state.qinfo)))
    /\ Val(session_state.sliced).ld = session_state.ld

\* C8: no script run ends with an uncaught exception of a loading, pipeline or
\* builder call.
C8_NoUncaughtException == uncaught = NotRaised

\* C9: the row range the analysis tab shows, which is also the range_info given
\* to every export, is the range the displayed sliced table was computed with.
C9_RangeShownIsRangeSliced ==
  view /= Unset =>
    /\ Val(view).from_row = Val(view).sliced.from_row
    /\ Val(view).to_row = Val(view).sliced.to_row
    /\ ExportArgs(session_state).range_info =
         <<Val(view).sliced.from_row, Val(view).sliced.to_row>>

\* C10: a run in which a file set different from the stored one is loaded
\* successfully replaces ld and uploaded_files_store, resets from_row and to_row
\* to the row bounds of the new data (min_r <= from_row <= to_row <= max_r), sets
\* processed to False and shows no results; processed becomes True again only in
\* a run caused by a Process click, and the results shown then are computed from
\* the stored ld.
LoadsNewFiles ==
  /\ uploaded_files' /= None
  /\ uploaded_files' /= session_state.uploaded_files_store
  /\ ~load_excels_raises(uploaded_files')
  /\ ~get_row_bounds_raises(load_excels(uploaded_files'))

IsReport(fmt) == report /= Unset /\ Val(report).fmt = fmt

Doc == Val(report).doc

FontFound == Val(report).font_path /= None

Titles(doc) ==
  LET t == SelectSeq(doc, LAMBDA e : e.kind = "title")
  IN [k \in 1..Len(t) |-> [q |-> t[k].q, text |-> t[k].text]]

TitlesOf(summaries) ==
  [k \in 1..Len(summaries) |->
     [q |-> summaries[k].question.code, text |-> Title(summaries[k])]]

NonEmptyOf(summaries) == SelectSeq(summaries, LAMBDA qs : ~Empty(qs.table))

\* C3 as stated: every builder emits, for every element of summaries and in
\* list order, a section titled "<code>. <text>"; no summary is omitted from any
\* format, a summary with an empty table included.
C3_EverySummaryTitledInEveryFormat ==
  report /= Unset => Titles(Doc) = TitlesOf(report_summaries)

\* C3, amended: build_excel_report and build_docx_report emit a titled section
\* for every summary in list order, and so does build_pdf_report when the font
\* is found (without it the PDF holds the error page only); build_pptx_report
\* emits one for every summary whose table is not empty, in list order, and none
\* for a summary whose table is empty.
C3_TitledSections ==
  /\ (IsReport("xlsx") \/ IsReport("docx")) => Titles(Doc) = TitlesOf(report_summaries)
  /\ IsReport("pdf") =>
       Titles(Doc) = IF FontFound THEN TitlesOf(report_summaries) ELSE <<>>
  /\ IsReport("pptx") => Titles(Doc) = TitlesOf(NonEmptyOf(report_summaries))

\* C3 witness: a slide deck built from a summary with an empty table and one
\* with rows.
C3_Witness ==
  /\ IsReport("pptx")
  /\ Len(report_summaries) = 2
  /\ Empty(report_summaries[1].table)
  /\ ~Empty(report_summaries[2].table)
  /\ Titles(Doc) = << [q |-> 2, text |-> Title(report_summaries[2])] >>

\* what a builder decided for the questions, in the order of the file: the
\* titles, placeholders, table headers, table rows and charts.  Pages, covers,
\* separators and a header repeated at the top of a new page are layout.
IsDecision(e) ==
  /\ e.kind \in {"title", "placeholder", "header", "row", "chart"}
  /\ ~(e.kind = "header" /\ "repeated" \in DOMAIN e /\ e.repeated)

Decision(e) ==
  CASE e.kind = "title"       -> [kind |-> "title", q |-> e.q, text |-> e.text]
    [] e.kind = "placeholder" -> [kind |-> "placeholder", q |-> e.q]
    [] e.kind = "header"      -> [kind |-> "header", q |-> e.q, cols |-> e.cols]
    [] e.kind = "row"         -> [kind |-> "row", q |-> e.q, n |-> e.n]
    [] e.kind = "chart"       -> [kind |-> "chart", q |-> e.q, chart |-> e.chart]

Decisions(doc) ==
  LET d == SelectSeq(doc, IsDecision)
  IN [k \in 1..Len(d) |-> Decision(d[k])]

ChartsAsTyped(doc, summaries) ==
  \A k \in 1..Len(doc) :
    doc[k].kind = "chart" =>
      (doc[k].chart = "bar" <=> summaries[doc[k].q].question.qtype = "SCALE")

C5_SmallTableKeptTogether ==
  (IsReport("pdf") /\ FontFound /\ Val(report).fails = NoFailure) =>
    \A i \in 1..Len(report_summaries) :
      (/\ ~Empty(report_summaries[i].table)
       /\ total_table_height(report_summaries[i].table, 6) < 240) =>
        \A k, m \in 1..Len(Doc) :
          (/\ Doc[k].kind = "header" /\ Doc[k].q = i
           /\ Doc[m].kind \in {"header", "row"} /\ Doc[m].q = i) =>
            /\ Doc[m].page = Doc[k].page
            /\ Doc[m].kind = "row" => Doc[m].page_end = Doc[k].page
            /\ Doc[m].kind = "header" => ~Doc[m].repeated

HasFont(e) == "font" \in DOMAIN e

DataRows(doc, i) ==
  { doc[k].row : k \in { j \in 1..Len(doc) : doc[j].kind = "row" /\ doc[j].q = i } }

ChartsOf(doc, i) == SelectSeq(doc, LAMBDA e : e.kind = "chart" /\ e.q = i)

\* C7: the workbook has exactly one pie chart for every summary whose table is
\* not empty and none for an empty one; the categories of the chart are column
\* 0 and its values column 1 of exactly the n data rows of that table, the
\* header row excluded.
C7_OnePieChartOverDataRows ==
  IsReport("xlsx") =>
    \A i \in 1..Len(report_summaries) :
      LET n == Len(report_summaries[i].table)
          c == ChartsOf(Doc, i)
      IN IF n = 0 THEN Len(c) = 0
         ELSE /\ Len(c) = 1
              /\ c[1].chart = "pie"
              /\ c[1].categories[2] = 0 /\ c[1].categories[4] = 0
              /\ c[1].values[2] = 1 /\ c[1].values[4] = 1
              /\ c[1].categories[1] = c[1].values[1]
              /\ c[1].categories[3] = c[1].values[3]
              /\ c[1].values[1]..c[1].values[3] = DataRows(Doc, i)
              /\ Cardinality(DataRows(Doc, i)) = n

\* C7 witness: a workbook of two tables, the second one of two rows, written
\* below the chart of the first.
C7_Witness ==
  /\ IsReport("xlsx")
  /\ Len(report_summaries) = 2
  /\ Len(report_summaries[1].table) = 1
  /\ Len(report_summaries[2].table) = 2
  /\ ChartsOf(Doc, 2)[1].values = <<21, 1, 22, 1>>

(***************************************************************************)
(* Further claims about the session (checked under Spec).                  *)
(***************************************************************************)
LoadState(ss) ==
  <<ss.ld, ss.uploaded_files_store, ss.from_row, ss.to_row, ss.processed>>

\* C11: loading is atomic on failure: a run in which load_excels or
\* get_row_bounds raises while a new upload is handled (the run shows the error
\* message) leaves ld, uploaded_files_store, from_row, to_row and processed as
\* they were before it, and ld is never set without from_row and to_row being
\* set.
C11_LoadAtomicOnFailure ==
  [][ /\ error' => LoadState(session_state') = LoadState(session_state)
      /\ session_state'.ld /= None =>
           (session_state'.from_row /= Unset /\ session_state'.to_row /= Unset)
    ]_vars

ZipOfArgs(zip, a) ==
  /\ Len(zip.entries) = 4
  /\ \A k \in 1..4 :
       /\ zip.entries[k].name = ZipName(ZipFormats[k])
       /\ zip.entries[k].data = build_report(ZipFormats[k], a)

\* C12: the archive get_zip_archive returns for the arguments of the ZIP
\* button has exactly the entries results.xlsx, results.pdf, results.docx and
\* results.pptx, in this order, each the bytes of its builder called with those
\* arguments, and all figures are closed before each builder runs; when a
\* builder raises no archive is returned and none is offered for download.
C12_ZipHoldsTheFourReports ==
  /\ (download /= Unset /\ Val(download).fmt = "zip") =>
       ZipOfArgs(Val(download), ExportArgs(session_state))
  /\ uncaught = "export" => download = Unset
  /\ Rendered(session_state) =>
       \A failing \in 0..4 :
         LET r == zip_body(ExportArgs(session_state), failing)
         IN /\ \A k \in 1..Len(r.calls) :
                 r.calls[k] /= "plt.close" => (k > 1 /\ r.calls[k - 1] = "plt.close")
            /\ failing = 0 => (r.returned /= Unset
                               /\ ZipOfArgs(Val(r.returned), ExportArgs(session_state)))
            /\ failing /= 0 => (r.raised /\ r.returned = Unset)

(***************************************************************************)
(* Further claims about the report builders (checked under BuildSpec).     *)
(***************************************************************************)
Fails == Val(report).fails

\* the same call when nothing fails
Clean ==
  CASE IsReport("pdf")  -> build_pdf_report(report_summaries, Val(report).font_path, NoFailure)
    [] IsReport("docx") -> build_docx_report(report_summaries, NoFailure)
    [] IsReport("pptx") -> build_pptx_report(report_summaries, NoFailure)

DecisionsOf(doc, i) == SelectSeq(Decisions(doc), LAMBDA d : d.q = i)

CountOf(doc, kind, i) ==
  Cardinality({ k \in 1..Len(doc) : doc[k].kind = kind /\ doc[k].q = i })

InListOrder(doc) == \A k, m \in 1..Len(doc) : k < m => doc[k].q <= doc[m].q

\* C13: a failure while the chart of one question (in the PDF, its table) is
\* rendered does not abort build_pdf_report, build_docx_report or
\* build_pptx_report: the document is returned, it holds every title and what
\* the builder prints of every other question when nothing fails, in list
\* order; of the question itself only the failed part is missing, and in the
\* DOCX a paragraph with the error text stands in place of the failed chart.
C13_RenderingFailureDoesNotAbort ==
  (report /= Unset /\ Val(report).fmt \in {"pdf", "docx", "pptx"}
     /\ (IsReport("pdf") => FontFound)) =>
    \A doc \in {Doc} : \A clean \in {Clean} :
      /\ Len(doc) > 0
      /\ InListOrder(doc)
      /\ Titles(doc) = Titles(clean)
      /\ \A i \in 1..Len(report_summaries) :
           ~Empty(report_summaries[i].table) =>
             \A d \in {DecisionsOf(doc, i)} : \A c \in {DecisionsOf(clean, i)} :
               /\ (Fails.chart /= i /\ Fails.table /= i) => d = c
               /\ Fails.chart = i =>
                    /\ CountOf(doc, "chart", i) = 0
                    /\ d = SelectSeq(c, LAMBDA e : e.kind /= "chart")
                    /\ CountOf(doc, "chart_error", i) = IF IsReport("docx") THEN 1 ELSE 0
               /\ Fails.table = i =>
                    /\ CountOf(doc, "table_error", i) = 1
                    /\ d = SelectSeq(c, LAMBDA e : e.kind \in {"title", "chart"})
      /\ IsReport("docx") =>
           /\ Len(doc) = Len(clean)
           /\ \A k \in 1..Len(doc) :
                \/ doc[k] = clean[k]
                \/ /\ doc[k] = [kind |-> "chart_error", q |-> Fails.chart]
                   /\ clean[k].kind = "chart" /\ clean[k].q = Fails.chart

\* C13 witness: a DOCX of two questions with tables in which the chart of the
\* first failed and the second question is rendered with its chart.
C13_Witness ==
  /\ IsReport("docx")
  /\ Len(report_summaries) = 2
  /\ Fails.chart = 1
  /\ CountOf(Doc, "chart_error", 1) = 1
  /\ CountOf(Doc, "row", 2) = 2
  /\ CountOf(Doc, "chart", 2) = 1

====
